---- MODULE Spec2Model ----
(***************************************************************************)
(* Model of BalenaMongoCache (src/src/balena_client/balena_mongo_cache.py): *)
(* a local document store with the collections devices, applications,      *)
(* releases and meta, refreshed from the balena API when stale or forced.  *)
(***************************************************************************)
EXTENDS Integers, Sequences, FiniteSets, TLC

\* ------------------------------------------------------------------ bounds
\* the clock runs from 0 to MaxTime (seconds)
MaxTime == 1
\* refresh_interval_seconds is drawn from 1..MaxInterval
MaxInterval == 1

\* ------------------------------------------------------------ value domains
\* Python None, for an omitted fleet
None == "None"
\* fleet names a caller passes
Fleets == {"fa", "FB"}
FleetArgs == Fleets \cup {None}
\* collection names a caller passes; "other" stands for every unknown name
Collections == {"devices", "applications", "releases", "other"}
\* the three stored data collections
Stored == {"devices", "applications", "releases"}

\* str.lower() on the fleet names of the model
Lower(fleet) == IF fleet = "FB" THEN "fb" ELSE fleet
\* application_slug = f"admin53/{fleet.lower()}"
ApplicationSlug(fleet) == "admin53/" \o Lower(fleet)

\* a mapping with no keys (Python {})
EmptyMap == [k \in {} |-> 0]
\* m[k] = v on a Python dict
Put(m, k, v) == [x \in (DOMAIN m) \cup {k} |-> IF x = k THEN v ELSE m[x]]
\* a dict without the key k
Without(m, k) == [x \in (DOMAIN m) \ {k} |-> m[x]]

\* A tag as the API returns it: {owner_ref: {"__id": id}, "tag_key", "value"}
Tag(ref_field, id, key, value) ==
    Put(Put(Put(EmptyMap, ref_field, [__id |-> id]), "tag_key", key), "value", value)

\* -------------------------------------------------- the upstream (balena API)
\* balena.models.device.get_all() / device.tags.get_all(): the datasets the
\* API may answer with
DeviceData ==
    { [records |-> << [id |-> 1], [id |-> 2] >>,
       tags    |-> << Tag("device", 1, "Customer", "Mart") >>],
      [records |-> << [id |-> 3] >>,
       tags    |-> << Tag("device", 3, "Customer", "Wada"),
                      Tag("device", 9, "Customer", "Mart"),
                      Tag("device", 3, "Customer", "Mart") >>] }

\* balena.models.application.get_all()
ApplicationData ==
    { [records |-> << [id |-> 10, app_name |-> "fa"], [id |-> 11, app_name |-> "FB"] >>,
       tags    |-> << >>] }

\* balena.models.release.get_all_by_application(slug, options) and
\* release.tags.get_all_by_application(slug)
ReleaseData(slug) ==
    IF slug = "admin53/fa"
    THEN { [records |-> << [id |-> 20, commit |-> "c20"], [id |-> 21, commit |-> "c21"] >>,
            tags    |-> << Tag("release", 21, "version", "v1") >>] }
    ELSE IF slug = "admin53/fb"
    THEN { [records |-> << [id |-> 30, commit |-> "c30"] >>,
            tags    |-> << Tag("release", 30, "version", "v1") >>] }
    ELSE IF slug = "admin53/fe"
    THEN { [records |-> << >>, tags |-> << >>] }
    ELSE { [records |-> << [id |-> 40, commit |-> "c40"] >>,
            tags    |-> << >>] }

\* the answer of an upstream that is not asked
NoData == [records |-> << >>, tags |-> << >>]
\* what the upstream can answer for a refresh of collection c (fleet f)
Upstream(c, f) ==
    CASE c = "devices"      -> DeviceData
      [] c = "applications" -> ApplicationData
      [] c = "releases" /\ f # None -> ReleaseData(ApplicationSlug(f))
      [] OTHER -> { NoData }

\* where a refresh may fail: not at all, in the record fetch, in the tag
\* fetch, in collection.drop() or in collection.insert_many()
Failures == {"none", "fetch", "fetch_tags", "drop", "insert"}

\* ------------------------------------------------------------------- state
VARIABLES
    now,                \* datetime.now(), in seconds
    refresh_interval,   \* self.refresh_interval
    db,                 \* self.db[c] for the stored collections: sequences of documents
    meta,               \* self.meta_collection: for each value of the "collection" field,
                        \* the documents that carry it, in insertion order
    default_projection, \* the shared default argument projection={} of find
    last_success,       \* history: the tag-joined dataset of the last successful refresh of c
    last,               \* the call that has just returned, with its outcome
    join,               \* the tag join applied on its own: its inputs and its results
    race,               \* two concurrent find calls: their positions and local data
    tunnel,             \* a BalenaTunnel object and the processes it has started
    client,             \* a BalenaClient object: the method called and the calls
                        \* its cache has received
    history             \* history: the keys whose most recent refresh has failed

vars == << now, refresh_interval, db, meta, default_projection, last_success, last,
           join, race, tunnel, client, history >>

\* the state of the cache
cache == << now, refresh_interval, db, meta, default_projection, last_success, last >>


\* ---------------------------------------------------------------- tag join
\* _add_release_tags / __add_device_tags: for each tag in input order, scan
\* the owners for the first one whose id is the tag's reference id, create
\* its tag mapping if absent, set mapping[tag_key] = value, and break
\* AddTags that appends the value to the one the key already has
RECURSIVE AddTags_appending(_, _, _, _)
AddTags_appending(owners, tags, ref_field, tag_field) ==
    IF tags = << >> THEN owners
    ELSE LET tag      == Head(tags)
             owner_id == tag[ref_field]["__id"]
             hits     == {i \in 1..Len(owners) : owners[i]["id"] = owner_id}
             first    == CHOOSE i \in hits : \A j \in hits : i <= j
             owner    == owners[first]
             tagmap   == IF tag_field \in DOMAIN owner THEN owner[tag_field] ELSE EmptyMap
             value    == IF tag["tag_key"] \in DOMAIN tagmap
                         THEN tagmap[tag["tag_key"]] \o "," \o tag["value"]
                         ELSE tag["value"]
             joined   == Put(owner, tag_field, Put(tagmap, tag["tag_key"], value))
             next     == IF hits = {} THEN owners ELSE [owners EXCEPT ![first] = joined]
         IN  AddTags_appending(next, Tail(tags), ref_field, tag_field)

RECURSIVE AddTags(_, _, _, _)
AddTags(owners, tags, ref_field, tag_field) ==
    IF tags = << >> THEN owners
    ELSE LET tag      == Head(tags)
             owner_id == tag[ref_field]["__id"]
             hits     == {i \in 1..Len(owners) : owners[i]["id"] = owner_id}
             first    == CHOOSE i \in hits : \A j \in hits : i <= j
             owner    == owners[first]
             tagmap   == IF tag_field \in DOMAIN owner THEN owner[tag_field] ELSE EmptyMap
             joined   == Put(owner, tag_field, Put(tagmap, tag["tag_key"], tag["value"]))
             next     == IF hits = {} THEN owners ELSE [owners EXCEPT ![first] = joined]
         IN  AddTags(next, Tail(tags), ref_field, tag_field)

\* _add_release_tags that takes the tags in reverse order
_add_release_tags_reversed(releases, release_tags) ==
    AddTags(releases,
            [i \in DOMAIN release_tags |-> release_tags[Len(release_tags) + 1 - i]],
            "release", "release_tags")

_add_release_tags(releases, release_tags) ==
    AddTags(releases, release_tags, "release", "release_tags")

\* __add_device_tags that creates the tag mapping of every device
__add_device_tags_all_mapped(devices, device_tags) ==
    AddTags([i \in DOMAIN devices |->
                IF "device_tags" \in DOMAIN devices[i] THEN devices[i]
                ELSE Put(devices[i], "device_tags", EmptyMap)],
            device_tags, "device", "device_tags")

__add_device_tags(devices, device_tags) ==
    AddTags(devices, device_tags, "device", "device_tags")

\* the dataset a refresh of collection c stores, given the upstream answer
Joined(c, data) ==
    CASE c = "devices"  -> __add_device_tags(data.records, data.tags)
      [] c = "releases" -> _add_release_tags(data.records, data.tags)
      [] OTHER          -> data.records

\* ---------------------------------------------------------- document store
\* a document matches an equality filter when it has every field of the
\* filter with the same value
Matches(doc, filter) ==
    \A k \in DOMAIN filter : k \in DOMAIN doc /\ doc[k] = filter[k]

\* collection.find_one(filter): position of the first matching document in
\* store order, 0 when there is none (Python None)
find_one(coll, filter) ==
    LET hits == {i \in 1..Len(coll) : Matches(coll[i], filter)}
    IN  IF hits = {} THEN 0 ELSE CHOOSE i \in hits : \A j \in hits : i <= j

\* collection.insert_many(documents): the store assigns each document an _id
insert_many(documents) ==
    [i \in 1..Len(documents) |-> Put(documents[i], "_id", i)]

\* collection.insert_many(documents) of the store (montydb, as pymongo) raises
\* TypeError("documents must be a non-empty list") when the list is empty
InsertRejects(documents) == documents = << >>

\* MetaFilter without the fleet: one key for the releases of every fleet
MetaFilter_no_fleet(collection, fleet) ==
    [meta_key |-> "last_refresh_time", collection |-> collection]

\* the key filter _update_last_refresh_time and _is_refresh_needed build
MetaFilter(collection, fleet) ==
    IF fleet # None
    THEN [meta_key |-> "last_refresh_time", collection |-> collection, fleet |-> fleet]
    ELSE [meta_key |-> "last_refresh_time", collection |-> collection]

\* The documents of meta_collection whose "collection" field is c.  Every
\* filter the code builds on meta_collection fixes "collection", so find_one
\* and update_one never choose between documents of different collections.
MetaOf(m, c) == IF c \in DOMAIN m THEN m[c] ELSE << >>

\* meta_collection.count_documents({})
MetaCount(m) == Len(m["devices"]) + Len(m["applications"]) + Len(m["releases"])

\* _update_last_refresh_time as an insert: a new document on every refresh
_update_last_refresh_time_insert(m, collection, fleet) ==
    [m EXCEPT ![collection] =
        Append(MetaOf(m, collection), Put(MetaFilter(collection, fleet), "value", now))]

\* meta_collection.update_one(filter, {"$set": {"value": datetime.now()}}, upsert=True)
_update_last_refresh_time(m, collection, fleet) ==
    LET filter == MetaFilter(collection, fleet)
        docs   == MetaOf(m, collection)
        idx    == find_one(docs, filter)
    IN  IF idx = 0
        THEN [m EXCEPT ![collection] =
                 Append(docs, Put(filter, "value", now))]
        ELSE [m EXCEPT ![collection] = [docs EXCEPT ![idx] = Put(docs[idx], "value", now)]]

\* _is_refresh_needed with an exclusive boundary
_is_refresh_needed_exclusive(collection, fleet) ==
    LET docs == MetaOf(meta, collection)
        idx  == find_one(docs, MetaFilter(collection, fleet))
    IN  IF idx = 0 THEN TRUE
        ELSE now - docs[idx]["value"] > refresh_interval

\* _is_refresh_needed(collection, fleet=None)
_is_refresh_needed(collection, fleet) ==
    LET docs == MetaOf(meta, collection)
        idx  == find_one(docs, MetaFilter(collection, fleet))
    IN  IF idx = 0 THEN TRUE
        ELSE now - docs[idx]["value"] >= refresh_interval

\* ----------------------------------------------------------------- refresh
\* the outcome of a call: the error raised ("" when it returned), the store
\* afterwards and the upstream calls it made
Raise(error, fetches, tag_fetches) ==
    [error |-> error, db |-> db, meta |-> meta,
     fetches |-> fetches, tag_fetches |-> tag_fetches]

\* Replace without the drop: the new documents are added to the old ones
Replace_merge(c, fleet, docs, fail, fetches, tag_fetches) ==
    IF fail = "drop" \/ fail = "insert" THEN Raise("StoreFailure", fetches, tag_fetches)
    ELSE [error |-> "",
          db |-> [db EXCEPT ![c] = db[c] \o insert_many(docs)],
          meta |-> _update_last_refresh_time(meta, c, fleet),
          fetches |-> fetches, tag_fetches |-> tag_fetches]

\* Replace as a transaction: a failed insert brings the dropped documents back
Replace_transactional(c, fleet, docs, fail, fetches, tag_fetches) ==
    IF fail = "drop" \/ fail = "insert" THEN Raise("StoreFailure", fetches, tag_fetches)
    ELSE [error |-> "",
          db |-> [db EXCEPT ![c] = insert_many(docs)],
          meta |-> _update_last_refresh_time(meta, c, fleet),
          fetches |-> fetches, tag_fetches |-> tag_fetches]

\* Replace that drops every stored collection
Replace_drop_all(c, fleet, docs, fail, fetches, tag_fetches) ==
    IF fail = "drop" THEN Raise("StoreFailure", fetches, tag_fetches)
    ELSE IF fail = "insert"
    THEN [Raise("StoreFailure", fetches, tag_fetches) EXCEPT !.db = [x \in Stored |-> << >>]]
    ELSE [error |-> "",
          db |-> [x \in Stored |-> IF x = c THEN insert_many(docs) ELSE << >>],
          meta |-> _update_last_refresh_time(meta, c, fleet),
          fetches |-> fetches, tag_fetches |-> tag_fetches]

\* Replace that records the refresh time first, before the drop
Replace_record_first(c, fleet, docs, fail, fetches, tag_fetches) ==
    LET recorded == _update_last_refresh_time(meta, c, fleet)
    IN  IF fail = "drop"
        THEN [Raise("StoreFailure", fetches, tag_fetches) EXCEPT !.meta = recorded]
        ELSE IF fail = "insert"
        THEN [Raise("StoreFailure", fetches, tag_fetches) EXCEPT
                 !.meta = recorded, !.db = [db EXCEPT ![c] = << >>]]
        ELSE [error |-> "",
              db |-> [db EXCEPT ![c] = insert_many(docs)],
              meta |-> recorded,
              fetches |-> fetches, tag_fetches |-> tag_fetches]

\* collection.drop(); collection.insert_many(docs); _update_last_refresh_time(c, fleet)
Replace(c, fleet, docs, fail, fetches, tag_fetches) ==
    IF fail = "drop" THEN Raise("StoreFailure", fetches, tag_fetches)
    ELSE IF fail = "insert"
    THEN [Raise("StoreFailure", fetches, tag_fetches) EXCEPT !.db = [db EXCEPT ![c] = << >>]]
    ELSE IF InsertRejects(docs)
    THEN [Raise("TypeError", fetches, tag_fetches) EXCEPT !.db = [db EXCEPT ![c] = << >>]]
    ELSE [error |-> "",
          db |-> [db EXCEPT ![c] = insert_many(docs)],
          meta |-> _update_last_refresh_time(meta, c, fleet),
          fetches |-> fetches, tag_fetches |-> tag_fetches]

\* _refresh_applications that drops the collection before it asks the upstream
_refresh_applications_drop_first(data, fail) ==
    IF fail = "fetch"
    THEN [Raise("UpstreamFailure", 1, 0) EXCEPT !.db = [db EXCEPT !["applications"] = << >>]]
    ELSE Replace("applications", None, data.records, fail, 1, 0)

_refresh_applications(data, fail) ==
    IF fail = "fetch" THEN Raise("UpstreamFailure", 1, 0)
    ELSE Replace("applications", None, data.records, fail, 1, 0)

\* _refresh_devices that catches the errors of the upstream and keeps the cache
_refresh_devices_swallowing(data, fail) ==
    IF fail = "fetch" THEN Raise("", 1, 0)
    ELSE IF fail = "fetch_tags" THEN Raise("", 1, 1)
    ELSE Replace("devices", None, __add_device_tags(data.records, data.tags), fail, 1, 1)

_refresh_devices(data, fail) ==
    IF fail = "fetch" THEN Raise("UpstreamFailure", 1, 0)
    ELSE IF fail = "fetch_tags" THEN Raise("UpstreamFailure", 1, 1)
    ELSE Replace("devices", None, __add_device_tags(data.records, data.tags), fail, 1, 1)

\* _refresh_releases that tests the fleet after the first fetch
_refresh_releases_late_check(fleet, data, fail) ==
    IF fleet = None THEN Raise("MissingParameter", 1, 0)
    ELSE IF fail = "fetch" THEN Raise("UpstreamFailure", 1, 0)
    ELSE IF fail = "fetch_tags" THEN Raise("UpstreamFailure", 1, 1)
    ELSE Replace("releases", fleet, _add_release_tags(data.records, data.tags), fail, 1, 1)

\* _refresh_releases that stores the releases without their tags
_refresh_releases_unjoined(fleet, data, fail) ==
    IF fleet = None THEN Raise("MissingParameter", 0, 0)
    ELSE IF fail = "fetch" THEN Raise("UpstreamFailure", 1, 0)
    ELSE IF fail = "fetch_tags" THEN Raise("UpstreamFailure", 1, 1)
    ELSE Replace("releases", fleet, data.records, fail, 1, 1)

_refresh_releases(fleet, data, fail) ==
    IF fleet = None THEN Raise("MissingParameter", 0, 0)
    ELSE IF fail = "fetch" THEN Raise("UpstreamFailure", 1, 0)
    ELSE IF fail = "fetch_tags" THEN Raise("UpstreamFailure", 1, 1)
    ELSE Replace("releases", fleet, _add_release_tags(data.records, data.tags), fail, 1, 1)

\* refresh_data that fetches the devices before it dispatches
refresh_data_fetch_first(collection, fleet, data, fail) ==
    CASE collection = "devices"      -> _refresh_devices(data, fail)
      [] collection = "applications" -> _refresh_applications(data, fail)
      [] collection = "releases"     -> _refresh_releases(fleet, data, fail)
      [] OTHER                       -> Raise("UnsupportedCollection", 1, 0)

\* refresh_data that refreshes only when the staleness check asks for it
refresh_data_if_needed(collection, fleet, data, fail) ==
    IF collection \in Stored /\ ~_is_refresh_needed(collection, fleet)
    THEN Raise("", 0, 0)
    ELSE CASE collection = "devices"      -> _refresh_devices(data, fail)
           [] collection = "applications" -> _refresh_applications(data, fail)
           [] collection = "releases"     -> _refresh_releases(fleet, data, fail)
           [] OTHER                       -> Raise("UnsupportedCollection", 0, 0)

\* refresh_data(collection, fleet=None): dispatch on the collection name
refresh_data(collection, fleet, data, fail) ==
    CASE collection = "devices"      -> _refresh_devices(data, fail)
      [] collection = "applications" -> _refresh_applications(data, fail)
      [] collection = "releases"     -> _refresh_releases(fleet, data, fail)
      [] OTHER                       -> Raise("UnsupportedCollection", 0, 0)

\* the failure points a refresh of collection c has
FailuresOf(c) == IF c = "applications" THEN Failures \ {"fetch_tags"} ELSE Failures


\* ------------------------------------------------------------------- query
\* the query mappings a caller passes (equality on top-level fields)
Queries == {EmptyMap}
\* the projection mappings a caller passes (field name -> include flag)
Projections == {EmptyMap}
\* the projection argument of a call: << >> when the caller omits it, << p >>
\* when the caller passes the mapping p
ProjectionArgs == { << p >> : p \in Projections }

\* one document under a projection mapping: an inclusion projection keeps the
\* named fields and _id unless _id is excluded, an exclusion projection drops
\* the named fields
Project(doc, projection) ==
    LET included == {k \in DOMAIN projection : projection[k] = 1}
        excluded == {k \in DOMAIN projection : projection[k] = 0}
        fields   == IF included # {}
                    THEN (included \cup ({"_id"} \ excluded)) \cap DOMAIN doc
                    ELSE (DOMAIN doc) \ excluded
    IN  [k \in fields |-> doc[k]]

\* list(collection.find(query, projection)): the matching documents in store
\* order, each projected
RECURSIVE collection_find(_, _, _)
collection_find(coll, query, projection) ==
    IF coll = << >> THEN << >>
    ELSE LET rest == collection_find(Tail(coll), query, projection)
         IN  IF Matches(Head(coll), query)
             THEN << Project(Head(coll), projection) >> \o rest
             ELSE rest

\* ------------------------------------------------------- keys of RefreshMeta
\* the RefreshMeta documents of the key (c, f) in the meta collection m: the
\* documents of collection c whose fleet is f (that have no fleet when f is None)
KeyDocs(m, c, f) ==
    { i \in 1..Len(MetaOf(m, c)) :
        LET doc == MetaOf(m, c)[i]
        IN  /\ doc["meta_key"] = "last_refresh_time"
            /\ doc["collection"] = c
            /\ IF f = None THEN "fleet" \notin DOMAIN doc
                           ELSE "fleet" \in DOMAIN doc /\ doc["fleet"] = f }

\* the key (c, f) has no RefreshMeta record, or one that is at least one
\* refresh interval old
KeyStale(c, f) ==
    \/ KeyDocs(meta, c, f) = {}
    \/ \E i \in KeyDocs(meta, c, f) : now - meta[c][i]["value"] >= refresh_interval

\* the key a refresh started by the call writes: the fleet counts for
\* releases only
CallKey(call) ==
    IF call.collection = "releases" THEN << "releases", call.fleet >>
                                    ELSE << call.collection, None >>

\* history: the key of the call is stale when the call is made
StaleAtCall(collection, fleet) ==
    LET key == CallKey([collection |-> collection, fleet |-> fleet])
    IN  collection \in Stored => KeyStale(key[1], key[2])

\* ----------------------------------------------------------------- actions
\* no call is in progress: the caller has taken the result of the last one;
\* failure is the step at which the upstream or the store failed in the call,
\* stale whether the key of the call was stale when it was made
Idle ==
    [op |-> "none", collection |-> None, fleet |-> None, bypass_cache |-> FALSE,
     error |-> "", needed |-> FALSE, refreshed |-> FALSE, failure |-> "none",
     stale |-> FALSE,
     fetches |-> 0, tag_fetches |-> 0, data |-> << >>,
     query |-> EmptyMap, projection_arg |-> << >>, projection |-> EmptyMap]

\* the tag join is not applied on its own
NoJoin == [function |-> "none", owners |-> << >>, tags |-> << >>, results |-> << >>]
\* no concurrent calls are made
NoRace == [threads |-> << >>, inserted |-> << >>, recorded |-> << >>]
\* no tunnel object exists
NoTunnel == [process |-> 0, children |-> << >>, listening |-> FALSE, scope |-> "none",
             entered |-> 0, opened |-> FALSE]
\* no client object exists
NoClient == [method |-> "none", args |-> << >>, calls |-> << >>]

\* no history of failed refreshes is kept
NoHistory == [on |-> FALSE, failed |-> {}]

\* the cache after __init__, before any call
Constructed ==
    /\ now = 0
    /\ refresh_interval \in 1..MaxInterval
    /\ db = [c \in Stored |-> << >>]
    /\ meta = [c \in Stored |-> << >>]
    /\ default_projection = EmptyMap
    /\ last_success = [c \in Stored |-> << >>]
    /\ last = Idle

Init ==
    /\ Constructed
    /\ history = NoHistory
    /\ join = NoJoin /\ race = NoRace /\ tunnel = NoTunnel /\ client = NoClient

\* time passes between calls
Tick ==
    /\ last = Idle
    /\ now < MaxTime
    /\ now' = now + 1
    /\ UNCHANGED << refresh_interval, db, meta, default_projection, last_success, last >>
    /\ UNCHANGED << join, race, tunnel, client, history >>

\* the caller takes the result (or the error) of the call; the core is
\* single-threaded, so the next call starts only after this
Return ==
    /\ last # Idle
    /\ last' = Idle
    /\ UNCHANGED << now, refresh_interval, db, meta, default_projection, last_success >>
    /\ UNCHANGED << join, race, tunnel, client, history >>

\* FleetAllowed without the check: every fleet passes
FleetAllowed_unchecked(collection, fleet) == TRUE

\* the fleet check of find: a fleet only with the releases collection
FleetAllowed(collection, fleet) == ~(collection # "releases" /\ fleet # None)

\* NeedRefresh without the bypass
NeedRefresh_stale_only(collection, bypass_cache) ==
    _is_refresh_needed(collection, None)

\* the refresh condition of find; the staleness check gets no fleet
NeedRefresh(collection, bypass_cache) ==
    _is_refresh_needed(collection, None) \/ bypass_cache

\* the history of successful refreshes: when a refresh of collection c has
\* succeeded, the tag-joined dataset the upstream answered with
Succeeded(ok, c, data) ==
    IF ok THEN [last_success EXCEPT ![c] = Joined(c, data)] ELSE last_success

\* ExcludeId that keeps an _id entry the caller has passed
ExcludeId_unless_passed(projection) ==
    IF "_id" \in DOMAIN projection THEN projection ELSE Put(projection, "_id", 0)

\* projection["_id"] = 0
ExcludeId(projection) == Put(projection, "_id", 0)

\* the history after a call: a refresh of `key` that fails puts the key among
\* the failed ones, one that succeeds takes it out
Noted(refreshed, key, failure) ==
    IF ~history.on \/ ~refreshed THEN history
    ELSE [history EXCEPT !.failed = IF failure THEN @ \cup {key} ELSE @ \ {key}]

\* find that evaluates the query on the store as it is before the refresh
find_query_first(collection, query, projection_arg, bypass_cache, fleet, data, fail) ==
    LET omitted    == projection_arg = << >>
        projection == IF omitted THEN default_projection ELSE projection_arg[1]
        call == [Idle EXCEPT !.op = "find", !.collection = collection, !.fleet = fleet,
                             !.bypass_cache = bypass_cache, !.query = query,
                             !.stale = StaleAtCall(collection, fleet),
                             !.projection_arg = projection_arg, !.projection = projection]
    IN  /\ last = Idle
        /\ UNCHANGED << now, refresh_interval, join, race, tunnel, client >>
        /\ IF ~FleetAllowed(collection, fleet)
           THEN /\ last' = [call EXCEPT !.error = "InvalidParameter"]
                /\ UNCHANGED << db, meta, default_projection, last_success, history >>
           ELSE LET needed  == _is_refresh_needed(collection, None)
                    refresh == NeedRefresh(collection, bypass_cache)
                    out     == IF refresh THEN refresh_data(collection, fleet, data, fail)
                                          ELSE Raise("", 0, 0)
                    done    == [call EXCEPT !.needed = needed, !.refreshed = refresh,
                                            !.failure = IF refresh THEN fail ELSE "none",
                                            !.fetches = out.fetches,
                                            !.tag_fetches = out.tag_fetches]
                    mutated == ExcludeId(projection)
                IN  /\ db' = out.db
                    /\ meta' = out.meta
                    /\ last_success' = Succeeded(refresh /\ out.error = "", collection, data)
                    /\ history' = Noted(refresh, CallKey(call), out.error # "")
                    /\ IF out.error # ""
                       THEN /\ last' = [done EXCEPT !.error = out.error]
                            /\ UNCHANGED default_projection
                       ELSE /\ last' = [done EXCEPT
                                           !.projection = mutated,
                                           !.data = collection_find(db[collection], query, mutated)]
                            /\ default_projection' = IF omitted THEN mutated
                                                     ELSE default_projection

\* find that sets _id on a copy of the projection
find_copying_projection(collection, query, projection_arg, bypass_cache, fleet, data, fail) ==
    LET omitted    == projection_arg = << >>
        projection == IF omitted THEN default_projection ELSE projection_arg[1]
        call == [Idle EXCEPT !.op = "find", !.collection = collection, !.fleet = fleet,
                             !.bypass_cache = bypass_cache, !.query = query,
                             !.stale = StaleAtCall(collection, fleet),
                             !.projection_arg = projection_arg, !.projection = projection]
    IN  /\ last = Idle
        /\ UNCHANGED << now, refresh_interval, join, race, tunnel, client >>
        /\ IF ~FleetAllowed(collection, fleet)
           THEN /\ last' = [call EXCEPT !.error = "InvalidParameter"]
                /\ UNCHANGED << db, meta, default_projection, last_success, history >>
           ELSE LET needed  == _is_refresh_needed(collection, None)
                    refresh == NeedRefresh(collection, bypass_cache)
                    out     == IF refresh THEN refresh_data(collection, fleet, data, fail)
                                          ELSE Raise("", 0, 0)
                    done    == [call EXCEPT !.needed = needed, !.refreshed = refresh,
                                            !.failure = IF refresh THEN fail ELSE "none",
                                            !.fetches = out.fetches,
                                            !.tag_fetches = out.tag_fetches]
                    mutated == ExcludeId(projection)
                IN  /\ db' = out.db
                    /\ meta' = out.meta
                    /\ last_success' = Succeeded(refresh /\ out.error = "", collection, data)
                    /\ history' = Noted(refresh, CallKey(call), out.error # "")
                    /\ IF out.error # ""
                       THEN /\ last' = [done EXCEPT !.error = out.error]
                            /\ UNCHANGED default_projection
                       ELSE /\ last' = [done EXCEPT
                                           !.data = collection_find(out.db[collection], query, mutated)]
                            /\ UNCHANGED default_projection

\* find(collection, query, projection={}, bypass_cache=False, fleet=None);
\* data and fail are what the upstream answers and where the refresh fails,
\* if it runs
find(collection, query, projection_arg, bypass_cache, fleet, data, fail) ==
    LET omitted    == projection_arg = << >>
        projection == IF omitted THEN default_projection ELSE projection_arg[1]
        call == [Idle EXCEPT !.op = "find", !.collection = collection, !.fleet = fleet,
                             !.bypass_cache = bypass_cache, !.query = query,
                             !.stale = StaleAtCall(collection, fleet),
                             !.projection_arg = projection_arg, !.projection = projection]
    IN  /\ last = Idle
        /\ UNCHANGED << now, refresh_interval, join, race, tunnel, client >>
        /\ IF ~FleetAllowed(collection, fleet)
           THEN /\ last' = [call EXCEPT !.error = "InvalidParameter"]
                /\ UNCHANGED << db, meta, default_projection, last_success, history >>
           ELSE LET needed  == _is_refresh_needed(collection, None)
                    refresh == NeedRefresh(collection, bypass_cache)
                    out     == IF refresh THEN refresh_data(collection, fleet, data, fail)
                                          ELSE Raise("", 0, 0)
                    done    == [call EXCEPT !.needed = needed, !.refreshed = refresh,
                                            !.failure = IF refresh THEN fail ELSE "none",
                                            !.fetches = out.fetches,
                                            !.tag_fetches = out.tag_fetches]
                    mutated == ExcludeId(projection)
                IN  /\ db' = out.db
                    /\ meta' = out.meta
                    /\ last_success' = Succeeded(refresh /\ out.error = "", collection, data)
                    /\ history' = Noted(refresh, CallKey(call), out.error # "")
                    /\ IF out.error # ""
                       THEN /\ last' = [done EXCEPT !.error = out.error]
                            /\ UNCHANGED default_projection
                       ELSE /\ last' = [done EXCEPT
                                           !.projection = mutated,
                                           !.data = collection_find(out.db[collection], query, mutated)]
                            /\ default_projection' = IF omitted THEN mutated
                                                     ELSE default_projection

\* refresh_data(collection, fleet=None) called directly (preload)
RefreshData(collection, fleet, data, fail) ==
    LET out == refresh_data(collection, fleet, data, fail)
    IN  /\ last = Idle
        /\ db' = out.db
        /\ meta' = out.meta
        /\ last_success' = Succeeded(out.error = "", collection, data)
        /\ last' = [Idle EXCEPT !.op = "refresh_data", !.collection = collection,
                                !.fleet = fleet, !.refreshed = TRUE, !.error = out.error,
                                !.failure = fail, !.stale = StaleAtCall(collection, fleet),
                                !.fetches = out.fetches, !.tag_fetches = out.tag_fetches]
        /\ history' = Noted(TRUE, CallKey([collection |-> collection, fleet |-> fleet]),
                            out.error # "")
        /\ UNCHANGED << now, refresh_interval, default_projection >>
        /\ UNCHANGED << join, race, tunnel, client >>

\* the environment of a call: the upstream's answer and the failure point
\* when the refresh procedure of the collection runs, nothing otherwise
Environment(collection, fleet, runs) ==
    IF runs /\ collection \in Stored /\ (collection = "releases" => fleet # None)
    THEN Upstream(collection, fleet) \X FailuresOf(collection)
    ELSE { << NoData, "none" >> }

Next ==
    \/ Tick
    \/ Return
    \/ \E collection \in Collections, fleet \in FleetArgs, bypass_cache \in BOOLEAN :
         \E env \in Environment(collection, fleet,
                                /\ FleetAllowed(collection, fleet)
                                /\ NeedRefresh(collection, bypass_cache)) :
            \E query \in Queries, projection_arg \in ProjectionArgs :
               find(collection, query, projection_arg, bypass_cache, fleet, env[1], env[2])
    \/ \E collection \in Collections, fleet \in FleetArgs :
         \E env \in Environment(collection, fleet, TRUE) :
            RefreshData(collection, fleet, env[1], env[2])

Spec == Init /\ [][Next]_vars

\* ------------------------------------------- find with queries and projections
\* the queries and the projections of the callers of find: every document, the
\* documents with an id; no projection argument, the empty projection, an
\* inclusion of id, an inclusion of _id, an exclusion of id
QueryArgs == {EmptyMap, [id |-> 1]}
QueryProjectionArgs ==
    {<< >>, << EmptyMap >>, << [id |-> 1] >>, << [_id |-> 1] >>, << [id |-> 0] >>}

\* a call of find with one of them
Find ==
    \E collection \in Collections, fleet \in FleetArgs, bypass_cache \in BOOLEAN :
       \E env \in Environment(collection, fleet,
                              /\ FleetAllowed(collection, fleet)
                              /\ NeedRefresh(collection, bypass_cache)) :
          \E query \in QueryArgs, projection_arg \in QueryProjectionArgs :
             find(collection, query, projection_arg, bypass_cache, fleet, env[1], env[2])

\* calls of find at one time: the refresh runs for a key without a record and
\* when the caller bypasses the cache
NextQuery == Return \/ Find

SpecQuery == Init /\ [][NextQuery]_vars

\* --------------------------------------------- releases of several fleets
\* find on the releases of three fleets
ManyFleets == Fleets \cup {"fc"}

FindReleases ==
    \E fleet \in ManyFleets, bypass_cache \in BOOLEAN :
       \E env \in Environment("releases", fleet, NeedRefresh("releases", bypass_cache)) :
          find("releases", EmptyMap, << EmptyMap >>, bypass_cache, fleet, env[1], env[2])

NextFleets == Tick \/ Return \/ FindReleases

SpecFleets == Init /\ [][NextFleets]_vars

\* ------------------------------------------- a fleet that has no releases
\* find on the releases of the fleets and of a fleet the upstream has no
\* release for
EmptyFleet == "fe"

FindEmptyFleet ==
    \E fleet \in Fleets \cup {EmptyFleet}, bypass_cache \in BOOLEAN :
       \E env \in Environment("releases", fleet, NeedRefresh("releases", bypass_cache)) :
          find("releases", EmptyMap, << EmptyMap >>, bypass_cache, fleet, env[1], env[2])

NextEmpty == Tick \/ Return \/ FindEmptyFleet

SpecEmpty == Init /\ [][NextEmpty]_vars

\* ------------------------------------------ find after a refresh that failed
\* find on devices and applications, with the history of
\* failed refreshes kept
InitRetry ==
    /\ Constructed
    /\ join = NoJoin /\ race = NoRace /\ tunnel = NoTunnel /\ client = NoClient
    /\ history = [NoHistory EXCEPT !.on = TRUE]

Unfleeted == {"devices", "applications"}

FindUnfleeted ==
    \E collection \in Unfleeted, bypass_cache \in BOOLEAN :
       \E env \in Environment(collection, None, NeedRefresh(collection, bypass_cache)) :
          find(collection, EmptyMap, << EmptyMap >>, bypass_cache, None, env[1], env[2])

NextRetry == Tick \/ Return \/ FindUnfleeted

SpecRetry == InitRetry /\ [][NextRetry]_vars

\* ------------------------------------------------ two concurrent find calls
\* Two threads of one process call find("devices", {}, {}) on the same cache.
\* Each statement of find and of _refresh_devices that reads or writes the
\* store is one step; the steps of the two threads interleave freely (the
\* code takes no lock).
Threads == {1, 2}

InitRace ==
    /\ Constructed
    /\ history = NoHistory
    /\ join = NoJoin /\ tunnel = NoTunnel /\ client = NoClient
    /\ race = [threads  |-> [t \in Threads |->
                               [pc |-> "check", devices |-> << >>, result |-> << >>]],
               inserted |-> << >>,
               recorded |-> << >>]

\* the thread t moves to pc with its local values changed as in the record
Goto(t, pc, changes) ==
    [race.threads EXCEPT ![t] =
        [x \in DOMAIN @ |-> IF x = "pc" THEN pc
                             ELSE IF x \in DOMAIN changes THEN changes[x] ELSE @[x]]]

\* if self._is_refresh_needed(collection) or bypass_cache:
Check(t) ==
    /\ race.threads[t].pc = "check"
    /\ race' = [race EXCEPT !.threads =
                   Goto(t, IF NeedRefresh("devices", FALSE) THEN "fetch" ELSE "query",
                        EmptyMap)]
    /\ UNCHANGED << cache, join, tunnel, client, history >>

\* devices = get_all(); device_tags = tags.get_all(); __add_device_tags(...)
Fetch(t) ==
    /\ race.threads[t].pc = "fetch"
    /\ \E d \in DeviceData :
          race' = [race EXCEPT !.threads =
                      Goto(t, "drop", [devices |-> __add_device_tags(d.records, d.tags)])]
    /\ UNCHANGED << cache, join, tunnel, client, history >>

\* self.devices_collection.drop()
Drop(t) ==
    /\ race.threads[t].pc = "drop"
    /\ db' = [db EXCEPT !["devices"] = << >>]
    /\ race' = [race EXCEPT !.threads = Goto(t, "insert", EmptyMap)]
    /\ UNCHANGED << now, refresh_interval, meta, default_projection, last_success, last >>
    /\ UNCHANGED << join, tunnel, client, history >>

\* self.devices_collection.insert_many(devices): the documents are added to
\* those the collection holds at this moment
Insert(t) ==
    /\ race.threads[t].pc = "insert"
    /\ db' = [db EXCEPT !["devices"] =
                 insert_many([i \in DOMAIN @ |-> Without(@[i], "_id")]
                                \o race.threads[t].devices)]
    /\ race' = [race EXCEPT !.threads = Goto(t, "record", EmptyMap),
                            !.inserted = race.threads[t].devices]
    /\ UNCHANGED << now, refresh_interval, meta, default_projection, last_success, last >>
    /\ UNCHANGED << join, tunnel, client, history >>

\* self._update_last_refresh_time("devices")
Record(t) ==
    /\ race.threads[t].pc = "record"
    /\ meta' = _update_last_refresh_time(meta, "devices", None)
    /\ race' = [race EXCEPT !.threads = Goto(t, "query", EmptyMap),
                            !.recorded = << now >>]
    /\ UNCHANGED << now, refresh_interval, db, default_projection, last_success, last >>
    /\ UNCHANGED << join, tunnel, client, history >>

\* projection["_id"] = 0; data = list(self.db[collection].find(query, projection))
Query(t) ==
    /\ race.threads[t].pc = "query"
    /\ race' = [race EXCEPT !.threads =
                   Goto(t, "done",
                        [result |-> collection_find(db["devices"], EmptyMap,
                                                    ExcludeId(EmptyMap))])]
    /\ UNCHANGED << cache, join, tunnel, client, history >>

NextRace ==
    \/ Tick
    \/ \E t \in Threads :
          Check(t) \/ Fetch(t) \/ Drop(t) \/ Insert(t) \/ Record(t) \/ Query(t)

SpecRace == InitRace /\ [][NextRace]_vars

\* ------------------------------------------------------------ BalenaTunnel
\* One BalenaTunnel object.  tunnel.process is self._process: 0 for None,
\* else the position in tunnel.children of the process the Popen object
\* stands for.  A child process is "running", "exited" (terminated and not
\* yet waited for) or "reaped" (terminated and waited for).  listening: the
\* local port is being listened on.  scope: inside ("in") or outside ("out")
\* a with block on the object; entered: the child __enter__ has started for
\* the block (0: none).  opened is history: the last open() has left the
\* tunnel open and close() has not been called since.
MaxOpens == 3

InitTunnel ==
    /\ Constructed
    /\ history = NoHistory
    /\ join = NoJoin /\ race = NoRace /\ client = NoClient
    /\ tunnel = [NoTunnel EXCEPT !.scope = "out"]

\* how open() goes: Popen raises; the process terminates during the wait;
\* lsof shows the port listening; the process is alive and the port not
\* listening after the ten rounds
OpenOutcomes == {"popen_raises", "exits", "listening", "timeout"}

\* BalenaTunnel.is_open
is_open(t) == t.process # 0

\* BalenaTunnel.open
open(t, outcome) ==
    IF outcome = "popen_raises"
    THEN [t EXCEPT !.process = 0, !.listening = FALSE, !.opened = FALSE]
    ELSE IF outcome = "exits"
    THEN [t EXCEPT !.children = Append(@, "reaped"), !.process = 0,
                   !.listening = FALSE, !.opened = FALSE]
    ELSE [t EXCEPT !.children = Append(@, "running"),
                   !.process = Len(t.children) + 1,
                   !.listening = (outcome = "listening"),
                   !.opened = TRUE]

\* close that terminates the process and does not wait for it
close_no_wait(t) ==
    IF t.process # 0
    THEN [t EXCEPT !.children[t.process] = IF @ = "running" THEN "exited" ELSE @,
                   !.listening = FALSE, !.opened = FALSE]
    ELSE [t EXCEPT !.opened = FALSE]

\* BalenaTunnel.close: terminate() and wait() when self._process is set
close(t) ==
    IF t.process # 0
    THEN [t EXCEPT !.children[t.process] = "reaped",
                   !.listening = FALSE, !.opened = FALSE]
    ELSE [t EXCEPT !.opened = FALSE]

\* the outcomes open() can have: a process is started only while fewer than
\* MaxOpens have been
Outcomes == IF Len(tunnel.children) < MaxOpens THEN OpenOutcomes ELSE {"popen_raises"}

\* tunnel.open() outside a with block
Open ==
    /\ tunnel.scope = "out"
    /\ \E outcome \in Outcomes : tunnel' = open(tunnel, outcome)
    /\ UNCHANGED << cache, join, race, client, history >>

\* tunnel.close() outside a with block
Close ==
    /\ tunnel.scope = "out"
    /\ tunnel' = close(tunnel)
    /\ UNCHANGED << cache, join, race, client, history >>

\* with tunnel: __enter__ calls open()
Enter ==
    /\ tunnel.scope = "out"
    /\ \E outcome \in Outcomes :
          tunnel' = [open(tunnel, outcome) EXCEPT
                        !.scope = "in",
                        !.entered = IF outcome = "popen_raises" THEN 0
                                    ELSE Len(tunnel.children) + 1]
    /\ UNCHANGED << cache, join, race, client, history >>

\* the with block is left, normally or by an exception: __exit__ calls close()
Exit ==
    /\ tunnel.scope = "in"
    /\ \E exception \in BOOLEAN : tunnel' = [close(tunnel) EXCEPT !.scope = "out"]
    /\ UNCHANGED << cache, join, race, client, history >>

\* the tunnel process terminates on its own
ChildExits ==
    /\ \E k \in DOMAIN tunnel.children :
          /\ tunnel.children[k] = "running"
          /\ tunnel' = [tunnel EXCEPT !.children[k] = "exited",
                                      !.listening = IF k = tunnel.process THEN FALSE ELSE @]
    /\ UNCHANGED << cache, join, race, client, history >>

NextTunnel == Open \/ Close \/ Enter \/ Exit \/ ChildExits

SpecTunnel == InitTunnel /\ [][NextTunnel]_vars

\* ------------------------------------------------------------ BalenaClient
\* One BalenaClient whose _mongo_cache records the calls made into it (the
\* mock of tests/test_balena_client.py).  client.method and client.args are
\* the BalenaClient method called last and its arguments, client.calls the
\* calls the cache has received: the method name, the positional arguments
\* and the keyword arguments.
MaxCalls == 2

InitClient ==
    /\ Constructed
    /\ history = NoHistory
    /\ join = NoJoin /\ race = NoRace /\ tunnel = NoTunnel
    /\ client = [NoClient EXCEPT !.method = "__init__"]

\* the projection a caller passes; an omitted one is the default {}
ClientProjections == {EmptyMap, [id |-> 1]}

\* the client after `method` was called with `args` and has made `call`
Called(method, args, call) ==
    /\ Len(client.calls) < MaxCalls
    /\ client' = [method |-> method, args |-> args,
                  calls |-> Append(client.calls, call)]
    /\ UNCHANGED << cache, join, race, tunnel, history >>

\* BalenaClient.preload_devices
preload_devices ==
    Called("preload_devices", EmptyMap,
           [name |-> "refresh_data", args |-> << "devices" >>, kwargs |-> EmptyMap])

\* BalenaClient.preload_applications
preload_applications ==
    Called("preload_applications", EmptyMap,
           [name |-> "refresh_data", args |-> << "applications" >>, kwargs |-> EmptyMap])

\* BalenaClient.preload_releases
preload_releases ==
    \E fleet \in FleetArgs :
       Called("preload_releases", [fleet |-> fleet],
              [name |-> "refresh_data", args |-> << "releases", fleet >>,
               kwargs |-> EmptyMap])

\* BalenaClient.get_devices
get_devices ==
    \E query \in QueryArgs, projection \in ClientProjections, bypass_cache \in BOOLEAN :
       Called("get_devices",
              [query |-> query, projection |-> projection, bypass_cache |-> bypass_cache],
              [name |-> "find", args |-> << "devices", query, projection >>,
               kwargs |-> [bypass_cache |-> bypass_cache]])

\* BalenaClient.get_releases
get_releases ==
    \E fleet \in FleetArgs, query \in QueryArgs, projection \in ClientProjections,
       bypass_cache \in BOOLEAN :
       Called("get_releases",
              [fleet |-> fleet, query |-> query, projection |-> projection,
               bypass_cache |-> bypass_cache],
              [name |-> "find", args |-> << "releases", query, projection >>,
               kwargs |-> [bypass_cache |-> bypass_cache, fleet |-> fleet]])

\* get_applications that reads the devices collection
get_applications_from_devices ==
    \E query \in QueryArgs, projection \in ClientProjections, bypass_cache \in BOOLEAN :
       Called("get_applications",
              [query |-> query, projection |-> projection, bypass_cache |-> bypass_cache],
              [name |-> "find", args |-> << "devices", query, projection >>,
               kwargs |-> [bypass_cache |-> bypass_cache]])

\* BalenaClient.get_applications
get_applications ==
    \E query \in QueryArgs, projection \in ClientProjections, bypass_cache \in BOOLEAN :
       Called("get_applications",
              [query |-> query, projection |-> projection, bypass_cache |-> bypass_cache],
              [name |-> "find", args |-> << "applications", query, projection >>,
               kwargs |-> [bypass_cache |-> bypass_cache]])

NextClient ==
    \/ preload_devices
    \/ preload_applications
    \/ preload_releases
    \/ get_devices
    \/ get_releases
    \/ get_applications

SpecClient == InitClient /\ [][NextClient]_vars

\* ---------------------------------------- BalenaClient: releases of a device
\* _get_release_id_from_identifier and update_device_to_release on a client
\* whose cache is fresh: client.cached holds the documents get_devices,
\* get_applications and get_releases read, client.calls the calls the method
\* called last has made (the cache reads and the PATCH request) and
\* client.result its outcome.  A Python str is a sequence of characters, a
\* Python value a record of its type and its value.
CommitLength == 32

PyInt(n) == [type |-> "int", value |-> n]
PyStr(s) == [type |-> "str", value |-> s]
PyNone == [type |-> "NoneType", value |-> 0]

\* a == b on Python values: an int and a str are never equal
PyEq(a, b) == a.type = b.type /\ a.value = b.value

Digits == {"0", "1", "2", "3", "4", "5", "6", "7", "8", "9"}
HexDigits == Digits \cup {"a", "b", "c", "d", "e", "f"}

\* re.match(r'^[0-9a-f]{32}$', s)
commit_pattern(s) == Len(s) = CommitLength /\ \A i \in 1..Len(s) : s[i] \in HexDigits

\* re.match(r'^\d+$', s)
id_pattern(s) == Len(s) >= 1 /\ \A i \in 1..Len(s) : s[i] \in Digits

DigitValue(ch) ==
    CASE ch = "0" -> 0 [] ch = "1" -> 1 [] ch = "2" -> 2 [] ch = "3" -> 3 [] ch = "4" -> 4
      [] ch = "5" -> 5 [] ch = "6" -> 6 [] ch = "7" -> 7 [] ch = "8" -> 8 [] ch = "9" -> 9

RECURSIVE DecimalValue(_)
DecimalValue(s) ==
    IF s = << >> THEN 0
    ELSE 10 * DecimalValue(SubSeq(s, 1, Len(s) - 1)) + DigitValue(s[Len(s)])

\* int(x) on an int or on a str of digits
int(x) == IF x.type = "int" THEN x.value ELSE DecimalValue(x.value)

\* the commits, versions and identifiers of the model
CommitOf(ch) == [i \in 1..CommitLength |-> IF i = 1 THEN ch ELSE "0"]
Version(ch) == << "v", ch >>
ReleaseIdentifiers ==
    { CommitOf("a"), CommitOf("b"), CommitOf("c"),
      << "2", "0" >>, << "2", "1" >>,
      Version("1"), Version("2"), Version("3") }

\* a release as the cache holds it
Release(id, commit, versions) ==
    IF versions = << >> THEN [id |-> id, commit |-> commit]
    ELSE [id |-> id, commit |-> commit, release_tags |-> [version |-> versions[1]]]

\* the releases the cache may hold for the fleet: commits and versions that
\* one release, two releases or no release carry
CachedReleases ==
    { << Release(20, CommitOf("a"), << Version("1") >>),
         Release(21, CommitOf("b"), << Version("2") >>) >>,
      << Release(20, CommitOf("a"), << Version("1") >>),
         Release(21, CommitOf("b"), << Version("1") >>) >>,
      << Release(20, CommitOf("a"), << >>),
         Release(21, CommitOf("a"), << Version("2") >>) >>,
      << >> }

Uuids == {"u1", "u9"}

\* the device u1 as the cache holds it
Device(release_id) ==
    [uuid |-> "u1", belongs_to__application |-> [__id |-> 10],
     should_be_running__release |-> [__id |-> release_id]]

InitUpdate ==
    /\ Constructed
    /\ history = NoHistory
    /\ join = NoJoin /\ race = NoRace /\ tunnel = NoTunnel
    /\ \E releases \in CachedReleases, current \in {20, 21} :
          client = [method |-> "__init__", args |-> << >>, calls |-> << >>,
                    result |-> [error |-> "", value |-> PyNone],
                    cached |-> [devices |-> << Device(current) >>,
                                applications |-> << [id |-> 10, app_name |-> "fa"] >>,
                                releases |-> releases]]

\* doc[path[1]][path[2]]...: the value a dotted field path of a query reaches
\* in a document, << >> when the path leaves the document
RECURSIVE FieldAt(_, _)
FieldAt(doc, path) ==
    IF path = << >> THEN << doc >>
    ELSE IF path[1] \in DOMAIN doc THEN FieldAt(doc[path[1]], Tail(path))
    ELSE << >>

\* the documents of a cached collection whose field at `path` equals `value`
\* (get_devices, get_applications and get_releases on the fresh cache)
Cached(collection, path, value) ==
    SelectSeq(client.cached[collection], LAMBDA doc : FieldAt(doc, path) = << value >>)

\* the record of a cache read
Read(collection, path) == [name |-> "get_" \o collection, field |-> path]

\* the outcome of a method: the exception raised ("" when it returned), the
\* value returned and the calls made
Outcome(error, value, calls) == [error |-> error, value |-> value, calls |-> calls]

\* BalenaClient._get_release_id_from_identifier: the f-string of both raise
\* statements reads the name `release`, which is defined nowhere
_get_release_id_from_identifier(fleet, release_identifier) ==
    IF commit_pattern(release_identifier)
    THEN LET releases == Cached("releases", << "commit" >>, release_identifier)
             calls    == << Read("releases", << "commit" >>) >>
         IN  IF Len(releases) # 1 THEN Outcome("NameError", PyNone, calls)
             ELSE Outcome("", PyInt(releases[1]["id"]), calls)
    ELSE IF id_pattern(release_identifier)
    THEN Outcome("", PyStr(release_identifier), << >>)
    ELSE LET releases == Cached("releases", << "release_tags", "version" >>, release_identifier)
             calls    == << Read("releases", << "release_tags", "version" >>) >>
         IN  IF Len(releases) # 1 THEN Outcome("NameError", PyNone, calls)
             ELSE Outcome("", PyInt(releases[1]["id"]), calls)

\* the answers of the API to the PATCH request
StatusCodes == {200, 404}

\* BalenaClient.update_device_to_release
update_device_to_release(device_uuid, release_identifier, status_code) ==
    LET devices == Cached("devices", << "uuid" >>, device_uuid)
        read1   == << Read("devices", << "uuid" >>) >>
    IN  IF devices = << >> THEN Outcome("IndexError", PyNone, read1)
        ELSE
        LET application_id == devices[1]["belongs_to__application"]["__id"]
            applications   == Cached("applications", << "id" >>, application_id)
            read2          == Append(read1, Read("applications", << "id" >>))
        IN  IF applications = << >> THEN Outcome("IndexError", PyNone, read2)
            ELSE
            LET fleet   == applications[1]["app_name"]
                release == _get_release_id_from_identifier(fleet, release_identifier)
                read3   == read2 \o release.calls
            IN  IF release.error # "" THEN Outcome(release.error, PyNone, read3)
                ELSE
                LET release_id == release.value
                    current_release_id ==
                        PyInt(devices[1]["should_be_running__release"]["__id"])
                    read4 == Append(read3, Read("devices", << "uuid" >>))
                IN  IF PyEq(current_release_id, release_id)
                    THEN Outcome("", [ok |-> FALSE, message |-> "Already at"], read4)
                    ELSE Outcome("",
                                 IF status_code = 200
                                 THEN [ok |-> TRUE, message |-> "None"]
                                 ELSE [ok |-> FALSE, message |-> "response.json()"],
                                 Append(read4, [name |-> "PATCH", device |-> device_uuid,
                                                is_pinned_on__release |-> int(release_id)]))

\* the client after a call of `method` with that outcome
Returned(method, args, outcome) ==
    /\ client' = [client EXCEPT !.method = method, !.args = args,
                                !.calls = outcome.calls,
                                !.result = [error |-> outcome.error, value |-> outcome.value]]
    /\ UNCHANGED << cache, join, race, tunnel, history >>

GetReleaseId ==
    \E release_identifier \in ReleaseIdentifiers :
       Returned("_get_release_id_from_identifier",
                [fleet |-> "fa", release_identifier |-> release_identifier],
                _get_release_id_from_identifier("fa", release_identifier))

UpdateDeviceToRelease ==
    \E device_uuid \in Uuids, release_identifier \in ReleaseIdentifiers,
       status_code \in StatusCodes :
       Returned("update_device_to_release",
                [device_uuid |-> device_uuid, release_identifier |-> release_identifier],
                update_device_to_release(device_uuid, release_identifier, status_code))

NextUpdate == GetReleaseId \/ UpdateDeviceToRelease

SpecUpdate == InitUpdate /\ [][NextUpdate]_vars

\* ------------------------------------------------- the tag join on its own
\* _add_release_tags / __add_device_tags as functions of their two arguments
MaxOwners == 2
MaxTags == 2
MaxJoins == 2

\* the sequences over S of length at most n
SeqsUpTo(S, n) == UNION { [1..k -> S] : k \in 0..n }

\* lists of owners (devices or releases) with distinct ids
OwnerLists ==
    { [i \in DOMAIN ids |-> [id |-> ids[i]]] :
        ids \in { s \in SeqsUpTo(1..MaxOwners, MaxOwners) :
                     \A i, j \in DOMAIN s : s[i] = s[j] => i = j } }

\* lists of tags of the owners; the id MaxOwners + 1 is the id of no owner
TagLists(function) ==
    SeqsUpTo({ Tag(function, id, key, value) :
                 id \in 1..(MaxOwners + 1),
                 key \in {"Customer", "Site"},
                 value \in {"Mart", "Wada"} },
             MaxTags)

InitTags ==
    /\ Constructed
    /\ history = NoHistory
    /\ \E function \in {"device", "release"} :
          \E owners \in OwnerLists, tags \in TagLists(function) :
             join = [function |-> function, owners |-> owners, tags |-> tags,
                     results |-> << >>]
    /\ race = NoRace /\ tunnel = NoTunnel /\ client = NoClient

\* the owners the next application of the join gets: the input list, then
\* the list the previous application has left (the join mutates in place)
JoinInput == IF join.results = << >> THEN join.owners
                                     ELSE join.results[Len(join.results)]

\* self.__add_device_tags(devices, device_tags)
AddDeviceTags ==
    /\ join.function = "device"
    /\ Len(join.results) < MaxJoins
    /\ join' = [join EXCEPT
                   !.results = Append(@, __add_device_tags(JoinInput, join.tags))]
    /\ UNCHANGED << cache, race, tunnel, client, history >>

\* self._add_release_tags(releases, release_tags)
AddReleaseTags ==
    /\ join.function = "release"
    /\ Len(join.results) < MaxJoins
    /\ join' = [join EXCEPT
                   !.results = Append(@, _add_release_tags(JoinInput, join.tags))]
    /\ UNCHANGED << cache, race, tunnel, client, history >>

NextTags == AddDeviceTags \/ AddReleaseTags

SpecTags == InitTags /\ [][NextTags]_vars


\* ------------------------------------------------------- vocabulary of the
\* properties
\* the keys of RefreshMeta: (collection) for devices and applications,
\* (collection, fleet) for releases
Keys == { << "devices", None >>, << "applications", None >> }
            \cup { << "releases", f >> : f \in Fleets }

\* the stored documents without the identity the store assigned
Strip(coll) == [i \in 1..Len(coll) |-> Without(coll[i], "_id")]

\* a step in which a call of op is made and returns (or raises)
CallStep(op) == last = Idle /\ last'.op = op

\* the call that has just returned ran a refresh procedure to its end
RefreshedOk(call) ==
    /\ call.op \in {"find", "refresh_data"}
    /\ call.refreshed
    /\ call.error = ""

\* ------------------------------------------------------------------ claims
\* C1: no redundant refresh.  Once a find has refreshed a key, a further find
\* with bypass_cache=False for that key, made while its RefreshMeta record is
\* younger than the refresh interval, makes no upstream fetch (so the two
\* calls fetch once); for devices, applications and releases, whatever other
\* keys were refreshed before.
C1_NoRedundantRefresh ==
    [][ (/\ CallStep("find")
         /\ ~last'.bypass_cache
         /\ << last'.collection, last'.fleet >> \in Keys
         /\ ~KeyStale(last'.collection, last'.fleet))
        => (last'.fetches = 0 /\ last'.tag_fetches = 0) ]_vars

\* C2: find on "releases" with fleet=None fails with MissingParameter and
\* returns no records, in every state and for both values of bypass_cache.
C2_ReleasesNeedFleet ==
    (last.op = "find" /\ last.collection = "releases" /\ last.fleet = None)
        => (last.error = "MissingParameter" /\ last.data = << >>)

\* C3: find with a fleet on a collection other than "releases" fails with
\* InvalidParameter before the staleness check: no refresh, no upstream call,
\* stored collections and RefreshMeta unchanged, for both values of bypass_cache.
C3_FleetOnlyForReleases ==
    [][ (/\ CallStep("find")
         /\ last'.collection # "releases"
         /\ last'.fleet # None)
        => /\ last'.error = "InvalidParameter"
           /\ ~last'.needed /\ ~last'.refreshed
           /\ last'.fetches = 0 /\ last'.tag_fetches = 0
           /\ last'.data = << >>
           /\ db' = db /\ meta' = meta ]_vars

\* C3 witness: find on devices with a fleet and bypass_cache=True has raised
\* while the devices key had never been refreshed
C3_Witness ==
    /\ last.op = "find" /\ last.collection = "devices" /\ last.fleet = "fa"
    /\ last.bypass_cache
    /\ last.error = "InvalidParameter"
    /\ meta["devices"] = << >> /\ db["devices"] = << >>

\* C4: find("releases", fleet=F, bypass_cache=False) refreshes if and only if
\* the key (releases, F) has no RefreshMeta record or one that is at least
\* one interval old, independently of the records of other fleets.
C4_StalenessPerFleet ==
    [][ (/\ CallStep("find")
         /\ last'.collection = "releases"
         /\ last'.fleet \in Fleets
         /\ ~last'.bypass_cache)
        => (last'.refreshed <=> KeyStale("releases", last'.fleet)) ]_vars

\* C5: the staleness check of a key is true when the key has no RefreshMeta
\* record, and otherwise true exactly when now - last_refresh_time >=
\* refresh_interval, with one interval for every collection.
C5_StalenessCheck ==
    \A k \in Keys :
        LET docs == KeyDocs(meta, k[1], k[2])
        IN  _is_refresh_needed(k[1], k[2]) =
               IF docs = {} THEN TRUE
               ELSE \A i \in docs : now - meta[k[1]][i]["value"] >= refresh_interval

\* C5 witness: a find on devices found the devices record exactly one interval
\* old and the check said stale, while the releases record of fleet fa,
\* younger than the interval, is not stale
C5_Witness ==
    /\ refresh_interval > 0
    /\ last.op = "find" /\ last.collection = "devices" /\ last.needed
    /\ last.error = "UpstreamFailure"
    /\ KeyDocs(meta, "devices", None) # {}
    /\ now - meta["devices"][1]["value"] = refresh_interval
    /\ KeyDocs(meta, "releases", "fa") # {}
    /\ ~_is_refresh_needed("releases", "fa")


\* C6: for every collection, a key is stale before its first refresh, not
\* stale right after a successful refresh of it has recorded the time, and
\* stale again once the elapsed time reaches the interval, so that a find
\* after the interval refreshes a second time.
C6_StalenessCycle ==
    /\ [](\A k \in Keys : KeyDocs(meta, k[1], k[2]) = {} => _is_refresh_needed(k[1], k[2]))
    /\ []((RefreshedOk(last) /\ CallKey(last) \in Keys)
            => ~_is_refresh_needed(CallKey(last)[1], CallKey(last)[2]))
    /\ [][ (/\ CallStep("find")
            /\ ~last'.bypass_cache
            /\ << last'.collection, last'.fleet >> \in Keys
            /\ KeyDocs(meta, last'.collection, last'.fleet) # {}
            /\ KeyStale(last'.collection, last'.fleet))
           => last'.refreshed ]_vars

\* C7: a find with bypass_cache=True runs the refresh of the requested
\* collection exactly once, fresh key or not: one fetch of the records and,
\* where the collection has tags, one fetch of the tags, never more.
C7_BypassRefreshesOnce ==
    (/\ last.op = "find"
     /\ last.bypass_cache
     /\ << last.collection, last.fleet >> \in Keys)
    => /\ last.refreshed
       /\ last.fetches = 1
       /\ last.tag_fetches <= 1
       /\ last.error = "" =>
             last.tag_fetches = (IF last.collection = "applications" THEN 0 ELSE 1)

\* C7 witness: a find on devices with bypass_cache=True has refreshed although
\* the staleness check said fresh
C7_Witness ==
    /\ last.op = "find" /\ last.bypass_cache /\ last.collection = "devices"
    /\ ~last.needed
    /\ last.error = "" /\ last.fetches = 1 /\ last.tag_fetches = 1

\* C8: replace, not merge.  After a successful refresh of a collection the
\* stored collection holds exactly the records of the dataset this refresh
\* fetched (N2 records), none of what it held before.
C8_ReplaceNotMerge ==
    [][ (/\ CallStep("find") \/ CallStep("refresh_data")
         /\ RefreshedOk(last')
         /\ last'.collection \in Stored)
        => \E d \in Upstream(last'.collection, last'.fleet) :
              /\ Strip(db'[last'.collection]) = Joined(last'.collection, d)
              /\ Len(db'[last'.collection]) = Len(d.records) ]_vars

\* C8 witness: releases were refreshed for fleet fa (2 records) and then for
\* fleet FB (1 record), and the collection holds the 1 record of FB
C8_Witness ==
    /\ RefreshedOk(last) /\ last.collection = "releases" /\ last.fleet = "FB"
    /\ KeyDocs(meta, "releases", "fa") = {1}
    /\ KeyDocs(meta, "releases", "FB") = {2}
    /\ Len(db["releases"]) = 1
    /\ db["releases"][1]["id"] = 30

\* C9 as claimed: between calls, also after refreshes that failed part-way,
\* each stored collection is exactly the tag-joined dataset of the most
\* recent successful refresh of that collection.
C9_StoredIsLastSuccess ==
    last = Idle => \A c \in Stored : Strip(db[c]) = last_success[c]

\* C9 amended: each stored collection is exactly the tag-joined dataset of
\* the most recent successful refresh of that collection, or it is empty,
\* and it is empty instead only from a refresh of that collection that failed
\* in the store after its drop until the next successful refresh of it.
C9_StoredIsLastSuccessOrEmptied ==
    /\ [](\A c \in Stored : Strip(db[c]) = last_success[c] \/ db[c] = << >>)
    /\ [][ \A c \in Stored :
             Strip(db'[c]) # last_success'[c]
             => \/ Strip(db[c]) # last_success[c]
                \/ /\ CallStep("find") \/ CallStep("refresh_data")
                   /\ last'.collection = c
                   /\ last'.error = "StoreFailure" ]_vars

\* C9 witness: between calls, the devices collection is empty after a failed
\* insert although devices were refreshed successfully before, and the
\* applications collection holds its last successful refresh
C9_Witness ==
    /\ last = Idle
    /\ db["devices"] = << >> /\ last_success["devices"] # << >>
    /\ db["applications"] # << >>
    /\ Strip(db["applications"]) = last_success["applications"]

\* C10: the meta collection holds at most one last-refresh record per key; a
\* refresh of a key that has a record updates it, and only a successful
\* refresh of a key without a record adds one, so k keys leave k records.
C10_OneMetaPerKey ==
    /\ [](\A k \in Keys : Cardinality(KeyDocs(meta, k[1], k[2])) <= 1)
    /\ [](\A c \in Stored : \A i \in 1..Len(meta[c]) :
             \E k \in Keys : i \in KeyDocs(meta, k[1], k[2]))
    /\ [][ MetaCount(meta') = MetaCount(meta) +
              (IF /\ CallStep("find") \/ CallStep("refresh_data")
                  /\ RefreshedOk(last')
                  /\ KeyDocs(meta, CallKey(last')[1], CallKey(last')[2]) = {}
               THEN 1 ELSE 0) ]_vars

\* C10 witness: all four keys have been refreshed, the key of fleet fa again
\* after the key of fleet FB was created, and meta holds four records
C10_Witness ==
    /\ MetaCount(meta) = 4
    /\ KeyDocs(meta, "releases", "fa") = {1}
    /\ KeyDocs(meta, "releases", "FB") = {2}
    /\ meta["releases"][1]["value"] > meta["releases"][2]["value"]
    /\ Len(meta["devices"]) = 1 /\ Len(meta["applications"]) = 1


\* a step in which find or refresh_data is called and returns (or raises)
AnyCallStep == CallStep("find") \/ CallStep("refresh_data")

\* C11: in each refresh procedure recording the refresh time is the last
\* step: RefreshMeta changes only in a call whose fetches, join, drop and
\* insert have all succeeded, and then the record of the key holds now and
\* the collection holds the inserted documents; when a step fails, every
\* RefreshMeta record keeps its value or stays absent.
C11_RecordRefreshLast ==
    [][ AnyCallStep
        => /\ last'.failure # "none" => (meta' = meta /\ last'.error # "")
           /\ meta' # meta
                => /\ RefreshedOk(last') /\ last'.failure = "none"
                   /\ \E d \in Upstream(last'.collection, last'.fleet) :
                         Strip(db'[last'.collection]) = Joined(last'.collection, d)
                   /\ \E i \in KeyDocs(meta', CallKey(last')[1], CallKey(last')[2]) :
                         meta'[last'.collection][i]["value"] = now ]_vars

\* C11 witness: a devices refresh has failed in insert_many after the drop,
\* one second after the previous refresh, and the devices record still holds
\* the time of the previous refresh
C11_Witness ==
    /\ last.op \in {"find", "refresh_data"} /\ last.collection = "devices"
    /\ last.failure = "insert" /\ last.error = "StoreFailure"
    /\ db["devices"] = << >>
    /\ now = 1
    /\ KeyDocs(meta, "devices", None) = {1}
    /\ meta["devices"][1]["value"] = 0


\* ------------------------------------------------- properties of the tag join
\* the field of a tag that refers to its owner, and the owner's tag mapping field
RefField == join.function
TagField == join.function \o "_tags"

\* the positions of the tags that refer to the owner id
TagsOf(id) == { t \in DOMAIN join.tags : join.tags[t][RefField]["__id"] = id }

\* the tag list without the tags that refer to no owner of the list
ValidTags ==
    SelectSeq(join.tags,
              LAMBDA tag : \E i \in DOMAIN join.owners :
                              join.owners[i]["id"] = tag[RefField]["__id"])

\* C12: after the tag join, the owners are the input owners in the same order
\* with their other fields unchanged; the tag mapping of each owner has
\* exactly the keys of the tags that refer to its id, each with the value of
\* one of those tags; an owner no tag refers to has no tag mapping field; the
\* tags that refer to no owner change nothing (the result is the join of the
\* tags without them).
C12_TagJoin ==
    join.results # << >>
    => LET out == join.results[1]
       IN  /\ Len(out) = Len(join.owners)
           /\ \A i \in DOMAIN join.owners :
                LET mine == TagsOf(join.owners[i]["id"])
                IN  /\ Without(out[i], TagField) = join.owners[i]
                    /\ IF mine = {}
                       THEN TagField \notin DOMAIN out[i]
                       ELSE /\ TagField \in DOMAIN out[i]
                            /\ DOMAIN out[i][TagField]
                                 = { join.tags[t]["tag_key"] : t \in mine }
                            /\ \A k \in DOMAIN out[i][TagField] :
                                 \E t \in mine :
                                    /\ join.tags[t]["tag_key"] = k
                                    /\ join.tags[t]["value"] = out[i][TagField][k]
           /\ out = AddTags(join.owners, ValidTags, RefField, TagField)

\* C12 witness: two owners joined with a tag of the first one and a tag that
\* refers to no owner; the first has the tag, the second no mapping
C12_Witness ==
    /\ join.results # << >>
    /\ Len(join.owners) = 2
    /\ Len(join.tags) = 2
    /\ Len(ValidTags) = 1
    /\ TagField \in DOMAIN join.results[1][1]
    /\ join.results[1][1][TagField] = Put(EmptyMap, "Customer", "Mart")
    /\ TagField \notin DOMAIN join.results[1][2]

\* C13: when several tags have the same owner id and the same tag_key, the
\* owner's tag mapping holds for the key the value of the last of them in
\* input order.
C13_TagOverwrite ==
    join.results # << >>
    => \A i \in DOMAIN join.owners :
          \A t \in TagsOf(join.owners[i]["id"]) :
             LET same == { u \in TagsOf(join.owners[i]["id"]) :
                             join.tags[u]["tag_key"] = join.tags[t]["tag_key"] }
                 final == CHOOSE u \in same : \A v \in same : v <= u
             IN  join.results[1][i][TagField][join.tags[t]["tag_key"]]
                    = join.tags[final]["value"]

\* C13 witness: two tags of one owner with the same key and different values
\* have been joined
C13_Witness ==
    /\ join.results # << >>
    /\ \E i \in DOMAIN join.owners :
          \E t, u \in TagsOf(join.owners[i]["id"]) :
             /\ t < u
             /\ join.tags[t]["tag_key"] = join.tags[u]["tag_key"]
             /\ join.tags[t]["value"] # join.tags[u]["value"]
             /\ join.results[1][i][TagField][join.tags[t]["tag_key"]]
                  = join.tags[u]["value"]

\* C14: the tag join is idempotent: applied again to the owners it has joined,
\* with the same tag list, it leaves every owner as after the first
\* application.
C14_TagJoinIdempotent ==
    \A n \in DOMAIN join.results : join.results[n] = join.results[1]

\* C14 witness: the join has been applied twice and an owner has a tag
C14_Witness ==
    /\ Len(join.results) >= 2
    /\ \E i \in DOMAIN join.owners : TagField \in DOMAIN join.results[2][i]


\* C15: no record that find returns has the field _id, whatever projection
\* the caller passes: none (the default), the empty one, an inclusion or an
\* exclusion of other fields, or one that asks for _id.
C15_NoIdentityField ==
    last.op = "find" => \A i \in DOMAIN last.data : "_id" \notin DOMAIN last.data[i]

\* C15 witness: a find with a projection that asks for _id has returned the
\* stored devices, whose documents carry an _id in the store
C15_Witness ==
    /\ last.op = "find" /\ last.error = ""
    /\ last.collection = "devices"
    /\ last.projection_arg = << [_id |-> 1] >>
    /\ last.projection = [_id |-> 0]
    /\ Len(last.data) = 2
    /\ \A i \in DOMAIN db["devices"] : "_id" \in DOMAIN db["devices"][i]


\* the call of the step makes no upstream call and leaves the stored
\* collections and the RefreshMeta records as they are
NoEffect ==
    /\ last'.fetches = 0 /\ last'.tag_fetches = 0
    /\ db' = db /\ meta' = meta

\* C16 as stated: for every collection name other than devices, applications
\* and releases, whatever the other arguments, find and refresh_data fail with
\* UnsupportedCollection, make no upstream call and leave the stored
\* collections and the RefreshMeta records unchanged.
C16_UnknownCollection ==
    [][ AnyCallStep /\ last'.collection \notin Stored
        => last'.error = "UnsupportedCollection" /\ NoEffect ]_vars

\* C16 amended: for every unknown collection name, refresh_data fails with
\* UnsupportedCollection whatever the fleet, find fails with
\* UnsupportedCollection when it gets no fleet and with InvalidParameter when
\* it gets one; in each case there is no upstream call and the stored
\* collections and the RefreshMeta records are unchanged.
C16_UnknownCollectionByFleet ==
    [][ AnyCallStep /\ last'.collection \notin Stored
        => /\ last'.error = IF last'.op = "find" /\ last'.fleet # None
                            THEN "InvalidParameter" ELSE "UnsupportedCollection"
           /\ NoEffect ]_vars

\* C16 witness: find on an unknown collection without a fleet has failed with
\* UnsupportedCollection while the store holds devices and a record
C16_Witness ==
    /\ last.op = "find" /\ last.collection = "other" /\ last.fleet = None
    /\ last.error = "UnsupportedCollection"
    /\ last.refreshed /\ last.fetches = 0
    /\ db["devices"] # << >>
    /\ meta["devices"] # << >>

\* C17: refresh_data on a supported collection (with a fleet for releases)
\* fetches from the upstream on every call, also when the key is fresh; when
\* no step fails it stores the tag-joined answer in place of the collection
\* and the RefreshMeta record of the key holds the time of the call.
C17_RefreshDataAlways ==
    [][ /\ CallStep("refresh_data")
        /\ last'.collection \in Stored
        /\ (last'.collection = "releases") = (last'.fleet # None)
        => /\ last'.fetches = 1
           /\ last'.failure = "none"
                => /\ last'.error = ""
                   /\ \E d \in Upstream(last'.collection, last'.fleet) :
                         Strip(db'[last'.collection]) = Joined(last'.collection, d)
                   /\ \E i \in KeyDocs(meta', CallKey(last')[1], CallKey(last')[2]) :
                         /\ meta'[last'.collection][i]["value"] = now
                         /\ KeyDocs(meta', CallKey(last')[1], CallKey(last')[2]) = {i} ]_vars

\* C17 witness: refresh_data has refreshed the releases of a fleet whose key
\* was fresh when it was called
C17_Witness ==
    /\ last.op = "refresh_data" /\ last.collection = "releases" /\ last.fleet = "fa"
    /\ ~last.stale
    /\ last.error = "" /\ last.fetches = 1 /\ last.tag_fetches = 1
    /\ db["releases"] # << >>

\* C18: refresh_data on releases without a fleet fails with MissingParameter
\* before any upstream call (none is made, none is retried); the stored
\* collections and every RefreshMeta record are unchanged.
C18_ReleasesRefreshNeedsFleet ==
    [][ /\ CallStep("refresh_data")
        /\ last'.collection = "releases" /\ last'.fleet = None
        => last'.error = "MissingParameter" /\ NoEffect ]_vars

\* C18 witness: refresh_data on releases without a fleet has failed while the
\* releases of a fleet are stored
C18_Witness ==
    /\ last.op = "refresh_data" /\ last.collection = "releases" /\ last.fleet = None
    /\ last.error = "MissingParameter"
    /\ db["releases"] # << >>
    /\ meta["releases"] # << >>

\* C19: refresh_data on devices or applications with a fleet fails with
\* InvalidParameter and performs no refresh.
C19_RefreshDataFleetConstraint ==
    [][ /\ CallStep("refresh_data")
        /\ last'.collection \in {"devices", "applications"} /\ last'.fleet # None
        => last'.error = "InvalidParameter" /\ NoEffect ]_vars

\* C20: when a fetch of the upstream raises in a refresh started by find or
\* refresh_data, the call ends with that error after one attempt of the fetch
\* that raised (none after it), and find returns no records.
C20_UpstreamFailurePropagates ==
    [][ AnyCallStep /\ last'.failure \in {"fetch", "fetch_tags"}
        => /\ last'.error = "UpstreamFailure"
           /\ last'.fetches = 1
           /\ last'.tag_fetches = IF last'.failure = "fetch_tags" THEN 1 ELSE 0
           /\ last'.data = << >> ]_vars

\* C20 witness: a find on devices has failed in the fetch while devices of an
\* earlier refresh are stored, and has returned none of them
C20_Witness ==
    /\ last.op = "find" /\ last.collection = "devices"
    /\ last.failure = "fetch" /\ last.error = "UpstreamFailure"
    /\ last.fetches = 1 /\ last.tag_fetches = 0
    /\ last.data = << >>
    /\ db["devices"] # << >>


\* C21: the replacement is a drop then an insert without a transaction: when
\* the insert fails after the drop, the collection of the call is left empty,
\* whatever it held, no RefreshMeta record changes, and the call ends with the
\* error of the store.
C21_FailedInsertLeavesEmpty ==
    [][ AnyCallStep /\ last'.failure = "insert"
        => /\ db'[last'.collection] = << >>
           /\ meta' = meta
           /\ last'.error = "StoreFailure"
           /\ last'.data = << >> ]_vars

\* C21 witness: a releases refresh has failed in the insert; the releases of
\* the last successful refresh are gone from the store and the record of the
\* key is still there
C21_Witness ==
    /\ last.op \in {"find", "refresh_data"} /\ last.collection = "releases"
    /\ last.failure = "insert" /\ last.error = "StoreFailure"
    /\ last_success["releases"] # << >>
    /\ db["releases"] = << >>
    /\ KeyDocs(meta, "releases", last.fleet) # {}


\* the ids of the releases the upstream has for the fleet
ReleaseIds(fleet) ==
    UNION { { d.records[i]["id"] : i \in DOMAIN d.records } :
              d \in Upstream("releases", fleet) }

\* C22: when a releases refresh of fleet B succeeds and the last successful
\* releases refresh before it was of another fleet A, the releases collection holds exactly
\* the releases of B and none of A, and RefreshMeta holds two separate
\* records, the one of (releases, A) as the refresh of A left it and the one
\* of (releases, B) with the time of this refresh.
C22_FleetRefreshClobbers ==
    [][ AnyCallStep /\ RefreshedOk(last') /\ last'.collection = "releases"
        => \A A \in Fleets \ {last'.fleet} :
              (\E i \in DOMAIN last_success["releases"] :
                  last_success["releases"][i]["id"] \in ReleaseIds(A))
              => LET B == last'.fleet
                 IN  /\ \E d \in Upstream("releases", B) :
                           Strip(db'["releases"]) = _add_release_tags(d.records, d.tags)
                     /\ \A i \in DOMAIN db'["releases"] :
                           db'["releases"][i]["id"] \notin ReleaseIds(A)
                     /\ \E a, b \in DOMAIN meta'["releases"] :
                           /\ a # b
                           /\ KeyDocs(meta', "releases", A) = {a}
                           /\ KeyDocs(meta', "releases", B) = {b}
                           /\ meta'["releases"][b]["value"] = now
                           /\ KeyDocs(meta, "releases", A) # {}
                           /\ \A i \in KeyDocs(meta, "releases", A) :
                                 meta'["releases"][a] = meta["releases"][i] ]_vars

\* C22 witness: the releases of fa were refreshed, then those of FB one second
\* later: the store holds the release of FB only and there are two records
C22_Witness ==
    /\ RefreshedOk(last) /\ last.collection = "releases" /\ last.fleet = "FB"
    /\ now = 1
    /\ Len(meta["releases"]) = 2
    /\ \E a \in KeyDocs(meta, "releases", "fa") : meta["releases"][a]["value"] = 0
    /\ \E b \in KeyDocs(meta, "releases", "FB") : meta["releases"][b]["value"] = 1
    /\ Len(db["releases"]) = 1
    /\ db["releases"][1]["id"] \in ReleaseIds("FB")


\* C23: cross-fleet staleness: when the stored releases belong to a fleet B
\* and the RefreshMeta record of (releases, A), A another fleet, is within the
\* interval, find("releases", fleet=A, bypass_cache=False) performs no
\* refresh and returns the stored documents, those of B.
C23_CrossFleetStaleness ==
    [][ /\ CallStep("find")
        /\ last'.collection = "releases" /\ last'.fleet # None
        /\ ~last'.bypass_cache
        /\ ~KeyStale("releases", last'.fleet)
        /\ db["releases"] # << >>
        /\ \E B \in ManyFleets \ {last'.fleet} :
              \A i \in DOMAIN db["releases"] : db["releases"][i]["id"] \in ReleaseIds(B)
        => /\ last'.fetches = 0 /\ last'.tag_fetches = 0
           /\ last'.error = ""
           /\ db' = db /\ meta' = meta
           /\ last'.data = Strip(db["releases"]) ]_vars


\* C24: a call on one collection leaves the stored documents and the
\* RefreshMeta records of every other collection as they are, and a refresh
\* that creates the record of its key adds one record to the meta collection
\* (two records after devices and then applications were refreshed).
C24_OtherCollectionsUntouched ==
    [][ AnyCallStep
        => /\ \A c \in Stored \ {last'.collection} :
                 db'[c] = db[c] /\ meta'[c] = meta[c]
           /\ RefreshedOk(last') /\ last'.collection \in Stored
                => MetaCount(meta')
                     = MetaCount(meta)
                         + IF KeyDocs(meta, CallKey(last')[1], CallKey(last')[2]) = {}
                           THEN 1 ELSE 0 ]_vars

\* C24 witness: applications have been refreshed one second after devices:
\* the devices and their record are as the devices refresh left them and the
\* meta collection holds two records
C24_Witness ==
    /\ RefreshedOk(last) /\ last.collection = "applications"
    /\ now = 1
    /\ db["devices"] # << >>
    /\ Strip(db["devices"]) = last_success["devices"]
    /\ Len(meta["devices"]) = 1 /\ meta["devices"][1]["value"] = 0
    /\ Len(meta["applications"]) = 1 /\ meta["applications"][1]["value"] = 1
    /\ MetaCount(meta) = 2


\* C25: when find runs a refresh that succeeds, the query is evaluated on the
\* store after the refresh: the collection holds the tag-joined dataset the
\* upstream has just answered with, the refresh time of the key is recorded,
\* and the returned records are the answer of the query and the projection
\* on these documents, not on those stored before nor on an empty collection.
C25_QueryAfterRefresh ==
    [][ CallStep("find") /\ last'.refreshed /\ last'.error = ""
        => \E d \in Upstream(last'.collection, last'.fleet) :
              LET fresh == insert_many(Joined(last'.collection, d))
              IN  /\ db'[last'.collection] = fresh
                  /\ last'.data = collection_find(fresh, last'.query, last'.projection)
                  /\ \E i \in KeyDocs(meta', CallKey(last')[1], CallKey(last')[2]) :
                        meta'[last'.collection][i]["value"] = now ]_vars

\* C25 witness: a find with bypass_cache on devices that were already stored
\* and fresh has refreshed them and returned the device of the query
C25_Witness ==
    /\ last.op = "find" /\ last.collection = "devices"
    /\ last.refreshed /\ last.bypass_cache /\ ~last.stale /\ last.error = ""
    /\ last.query = [id |-> 1]
    /\ Len(last.data) = 1 /\ last.data[1]["id"] = 1
    /\ Len(db["devices"]) = 2


\* C26: when two concurrent find calls on the stale devices collection have
\* both finished, the collection holds exactly the dataset of the refresh
\* whose insert completed last, and RefreshMeta holds one devices record with
\* the time of the record step that came last.
C26_LastWriterWins ==
    (\A t \in Threads : race.threads[t].pc = "done")
    => /\ Strip(db["devices"]) = race.inserted
       /\ Len(meta["devices"]) = 1
       /\ << meta["devices"][1]["value"] >> = race.recorded


\* C27: entering a with block on the tunnel is a call of open(); when the
\* block is left, normally or by an exception, the process __enter__ has
\* started is terminated and waited for; when the opening failed, the exit
\* changes no process.
C27_ContextManagerCloses ==
    [][ /\ tunnel.scope = "out" /\ tunnel'.scope = "in"
           => \E outcome \in OpenOutcomes :
                 /\ tunnel'.process = open(tunnel, outcome).process
                 /\ tunnel'.children = open(tunnel, outcome).children
        /\ tunnel.scope = "in" /\ tunnel'.scope = "out"
           => /\ tunnel.entered # 0 => tunnel'.children[tunnel.entered] = "reaped"
              /\ ~is_open(tunnel) => tunnel'.children = tunnel.children ]_vars

\* C27 witness: a with block whose entry has started a tunnel that listens
\* has been left and that process is terminated and waited for
C27_Witness ==
    /\ tunnel.scope = "out"
    /\ tunnel.entered # 0
    /\ tunnel.process = tunnel.entered
    /\ tunnel.children[tunnel.entered] = "reaped"

\* C28: is_open() is true exactly when open() has opened the tunnel and
\* close() has not been called since.
C28_IsOpenExact ==
    tunnel.scope # "none" => (is_open(tunnel) <=> tunnel.opened)


\* the collection a BalenaClient method is about
CollectionOf(method) ==
    IF method \in {"preload_devices", "get_devices"} THEN "devices"
    ELSE IF method \in {"preload_applications", "get_applications"} THEN "applications"
    ELSE "releases"

\* C29: a call of a preload_* or get_* method adds exactly one call to those
\* the cache has received: refresh_data(collection) for preload, find(
\* collection, query, projection, bypass_cache=bypass_cache) for get, with the
\* collection of the method and the arguments of the caller; the call carries
\* a fleet, the caller's, exactly when the collection is releases.
C29_OneCachePassThrough ==
    [][ client' # client =>
        LET m == client'.method
            a == client'.args
            c == client'.calls[Len(client'.calls)]
        IN  /\ client'.calls = Append(client.calls, c)
            /\ c.args[1] = CollectionOf(m)
            /\ m \in {"preload_devices", "preload_applications", "preload_releases"}
               => /\ c.name = "refresh_data"
                  /\ c.kwargs = EmptyMap
                  /\ Len(c.args) = IF m = "preload_releases" THEN 2 ELSE 1
                  /\ m = "preload_releases" => c.args[2] = a.fleet
            /\ m \in {"get_devices", "get_applications", "get_releases"}
               => /\ c.name = "find"
                  /\ c.args = << CollectionOf(m), a.query, a.projection >>
                  /\ c.kwargs["bypass_cache"] = a.bypass_cache
                  /\ DOMAIN c.kwargs = IF m = "get_releases"
                                       THEN {"bypass_cache", "fleet"}
                                       ELSE {"bypass_cache"}
                  /\ m = "get_releases" => c.kwargs["fleet"] = a.fleet ]_vars

\* C29 witness: get_applications was called with a query, a projection and
\* bypass_cache=True after get_releases for a fleet, and the cache has
\* received two calls
C29_Witness ==
    /\ Len(client.calls) = 2
    /\ client.method = "get_applications"
    /\ client.args = [query |-> [id |-> 1], projection |-> [id |-> 1], bypass_cache |-> TRUE]
    /\ client.calls[1].name = "find"
    /\ client.calls[1].args[1] = "releases"
    /\ client.calls[1].kwargs["fleet"] = "fa"
    /\ client.calls[2].args[1] = "applications"


\* C30: a find with bypass_cache=False for a key whose most recent refresh
\* has failed runs the refresh again.
C30_FailedRefreshRetried ==
    [][ /\ last = Idle /\ last'.op = "find"
        /\ ~last'.bypass_cache
        /\ CallKey(last') \in history.failed
        => last'.refreshed ]_vars


\* C31: when the record fetch or the tag fetch of the upstream raises in a
\* refresh, every stored collection and every RefreshMeta record is as it was
\* before the call.
C31_FetchFailureLeavesStore ==
    [][ AnyCallStep /\ last'.failure \in {"fetch", "fetch_tags"}
        => db' = db /\ meta' = meta ]_vars

\* C31 witness: a refresh of applications has failed in the record fetch, or
\* one of releases in the tag fetch, and the documents of an earlier refresh
\* and the refresh record of the collection are still in the store
C31_Witness ==
    /\ last.op \in {"find", "refresh_data"}
    /\ \/ last.collection = "applications" /\ last.failure = "fetch"
       \/ last.collection = "releases" /\ last.failure = "fetch_tags"
    /\ last.error = "UpstreamFailure"
    /\ db[last.collection] # << >>
    /\ MetaOf(meta, last.collection) # << >>


\* C32: a refresh for which the upstream has zero records and in which nothing
\* fails ends without an error, leaves the collection empty and records the
\* refresh time of the key; a find on the fleet that runs no refresh returns
\* no records and no error.
C32_EmptyRefreshSucceeds ==
    [][ /\ CallStep("find")
        /\ last'.collection = "releases" /\ last'.fleet = EmptyFleet
        /\ last'.failure = "none"
        => /\ last'.error = "" /\ last'.data = << >>
           /\ last'.refreshed
              => /\ db'["releases"] = << >>
                 /\ \E i \in KeyDocs(meta', "releases", EmptyFleet) :
                       meta'["releases"][i]["value"] = now ]_vars


\* C33: a find that returns leaves in the projection object of the caller,
\* or in the shared default when none is passed, what it held with _id
\* mapped to 0, and the shared default changes in no other call; a find that
\* raises leaves the default as it was; the _id entry of the default stays.
C33_ProjectionMutatedInPlace ==
    [][ CallStep("find") =>
        LET omitted == last'.projection_arg = << >>
            before  == IF omitted THEN default_projection ELSE last'.projection_arg[1]
        IN  /\ last'.error = ""
               => /\ last'.projection = Put(before, "_id", 0)
                  /\ default_projection' = IF omitted THEN last'.projection
                                           ELSE default_projection
            /\ last'.error # "" => default_projection' = default_projection
            /\ "_id" \in DOMAIN default_projection
               => "_id" \in DOMAIN default_projection' ]_vars

\* C33 witness: a find without a projection has answered from the store, no
\* refresh run, and the shared default holds the _id entry
C33_Witness ==
    /\ last.op = "find" /\ last.error = ""
    /\ last.projection_arg = << >>
    /\ ~last.refreshed
    /\ last.data # << >>
    /\ default_projection = [_id |-> 0]
    /\ last.projection = default_projection


\* C34: after open() has returned, called directly or by __enter__, is_open()
\* is true only if the port was seen listening.
C34_OpenOnlyWhenListening ==
    [][ \/ Len(tunnel'.children) > Len(tunnel.children)
        \/ tunnel.scope = "out" /\ tunnel'.scope = "in"
        => (is_open(tunnel') => tunnel'.listening) ]_vars


\* the cached releases the identifier matches as a commit or as a version
Matched(release_identifier) ==
    SelectSeq(client.cached.releases,
              LAMBDA r : \/ r["commit"] = release_identifier
                         \/ /\ "release_tags" \in DOMAIN r
                            /\ r["release_tags"]["version"] = release_identifier)

\* the identifier is a string of digits and no commit
Numeric(release_identifier) ==
    id_pattern(release_identifier) /\ ~commit_pattern(release_identifier)

\* C35: _get_release_id_from_identifier returns an all-digit identifier
\* itself, without a read of the cache; for a commit or a version it raises
\* ValueError when the cached releases hold no match or several, and returns
\* the id of the match when there is one.
C35_ReleaseIdFromIdentifier ==
    client.method = "_get_release_id_from_identifier"
    => LET release_identifier == client.args.release_identifier
       IN  IF Numeric(release_identifier)
           THEN /\ client.result.error = ""
                /\ PyEq(client.result.value, PyStr(release_identifier))
                /\ client.calls = << >>
           ELSE IF Len(Matched(release_identifier)) = 1
           THEN /\ client.result.error = ""
                /\ PyEq(client.result.value, PyInt(Matched(release_identifier)[1]["id"]))
           ELSE client.result.error = "ValueError"

\* C36: update_device_to_release on a known device and an identifier that
\* denotes one release returns (False, "Already at ...") without a PATCH
\* request when that release is the one the device should be running, and
\* makes the PATCH request only when the two differ.
C36_NoPatchWhenAlreadyThere ==
    /\ client.method = "update_device_to_release"
    /\ client.args.device_uuid = "u1"
    /\ client.result.error = ""
    => LET release_identifier == client.args.release_identifier
           denoted == IF Numeric(release_identifier)
                      THEN DecimalValue(release_identifier)
                      ELSE Matched(release_identifier)[1]["id"]
           current == client.cached.devices[1]["should_be_running__release"]["__id"]
           patched == \E i \in DOMAIN client.calls : client.calls[i].name = "PATCH"
       IN  IF current = denoted
           THEN client.result.value = [ok |-> FALSE, message |-> "Already at"] /\ ~patched
           ELSE patched

====
